---- MODULE Spec2Model ----
(***************************************************************************)
(* A model of the download bot of src/bot.py (src/Main.py is a truncated   *)
(* copy of the same file): the hourly rate limiter of DatabaseManager, the *)
(* per-user sessions of TelegramBot.user_states and the handlers that use  *)
(* them, and the playlist fan-out of EnhancedDownloader.download_playlist. *)
(***************************************************************************)
EXTENDS Integers, Sequences, FiniteSets, TLC

(* ------------------------------ bounds --------------------------------- *)
MaxLimit == 3
MaxHour == 2
MaxCalls == 5
MaxRaceCalls == 4
MaxUpdates == 4
MaxSubmits == 11

MaxEntries == 4
MinWorkers == 2
\* the progress events of one download, and the seconds it is watched
MaxEvents == 4
MaxSeconds == 4
\* the downloads one user runs one after the other
MaxDownloads == 3

\* RATE_LIMIT when the environment does not set it
DefaultRateLimit == 10

\* MAX_CONCURRENT when the environment does not set it
DefaultMaxConcurrent == 5

\* asyncio.Semaphore(3) of download_playlist
BatchConcurrency == 3

\* max_videos when the caller does not pass it
DefaultMaxVideos == 50

Users == {"u1", "u2"}

(* ------------------------------ state ---------------------------------- *)
VARIABLES
    rate_limit_per_user,   \* BotConfig.rate_limit_per_user
    current_hour,          \* int(time.time() // 3600)
    rate_limits,           \* table rate_limits: user_id -> row
    calls,                 \* per user, the check_rate_limit calls made so far
    racers,                \* check_rate_limit calls of concurrent callers, by step
    admitted,              \* per user and hour, the concurrent calls that returned True
    raised,                \* concurrent calls that ended in sqlite3.IntegrityError
    racecalls,             \* concurrent calls begun so far
    enable_playlist_download, \* BotConfig.enable_playlist_download
    user_states,           \* TelegramBot.user_states: user_id -> session
    tasks,                 \* the handler coroutines, each at its await point
    updates,               \* updates handed to a handler so far
    budget,                \* updates the run may hand out
    submitted,             \* per user, handle_url calls begun in the current hour
    reply,                 \* the last final message a handler sent, or the
                           \* exception it ended with
    closed_absent,         \* whether the last session cleanup found no session
    stale,                 \* per user, whether more than the session TTL has
                           \* passed since a handler last stored or looked up
                           \* the session; the program keeps no such time
    max_concurrent_downloads, \* BotConfig.max_concurrent_downloads: executor workers
    entries,               \* info['entries'] of the playlist url
    max_videos,            \* the max_videos handed to download_playlist
    pl_pc,                 \* where start_playlist_download / download_playlist stands
    items,                 \* the download_single tasks, one per entry after the cut
    semaphore,             \* value of the asyncio.Semaphore of the batch
    results,               \* processed_results as returned by download_playlist
    completed_files,       \* len(completed_files) of start_playlist_download
    failed_files,          \* len(failed_files) of start_playlist_download
    pool_queue,            \* the work queue of EnhancedDownloader.executor
    busy,                  \* worker threads of the executor running a call
    others,                \* the executor calls of the other callers of the bot
    clock,                 \* time.time(), in whole seconds
    last_update,           \* last_update of download_single_video
    events,                \* the progress events yt_dlp reported for the download
    hook_raised,           \* whether progress_hook ended with an exception
    exc,                   \* the exception that ended the yt_dlp call of the
                           \* download under way
    outcome,               \* the tuple download_video returned
    shown,                 \* the final texts download_single_video has put
                           \* into its status message, oldest first
    overtaken,             \* whether an item of the playlist has ended while
                           \* an earlier one had not
    buttons                \* for each user, the urls of the menus whose
                           \* buttons are in the chat (the callback data of
                           \* a button embeds hash(url))

rateVars == <<rate_limit_per_user, current_hour, rate_limits, calls>>
raceVars == <<racers, admitted, raised, racecalls>>

ghostVars == <<closed_absent, stale>>

botVars == <<enable_playlist_download, user_states, tasks, updates, budget,
             submitted, reply, ghostVars>>

poolVars == <<pool_queue, busy, others>>

batchVars == <<max_concurrent_downloads, entries, max_videos, pl_pc, items,
               semaphore, results, completed_files, failed_files, poolVars>>

endVars == <<exc, outcome, shown>>

progVars == <<clock, last_update, events, hook_raised, endVars>>

vars == <<rateVars, raceVars, botVars, batchVars, progVars, overtaken,
         buttons>>

(* ------------------------- DatabaseManager ----------------------------- *)
\* fetchone() of a user without a row is None
NoRow == [present |-> FALSE, hour_start |-> 0, requests_count |-> 0]

Row(h, c) == [present |-> TRUE, hour_start |-> h, requests_count |-> c]

\* The branch check_rate_limit takes on the fetched row `result` with `>`
\* in place of `>=`.
Decision_OffByOne(result, hour, lim) ==
    IF ~result.present THEN "insert"
    ELSE IF result.hour_start # hour THEN "reset"
    ELSE IF result.requests_count > lim THEN "deny"
    ELSE "incr"

\* The branch check_rate_limit takes on the fetched row `result`.
Decision(result, hour, lim) ==
    IF ~result.present THEN "insert"
    ELSE IF result.hour_start # hour THEN "reset"
    ELSE IF result.requests_count >= lim THEN "deny"
    ELSE "incr"

\* INSERT of a user_id that has a row violates the PRIMARY KEY.
InsertConflicts(op, stored) == op = "insert" /\ stored.present

\* The statements with the reset storing hour 0 in place of the current hour.
Write_ResetToEpoch(op, stored, hour) ==
    CASE op = "insert" -> Row(hour, 1)
      [] op = "reset"  -> IF stored.present THEN Row(0, 1) ELSE stored
      [] op = "incr"   -> IF stored.present
                          THEN Row(stored.hour_start, stored.requests_count + 1)
                          ELSE stored
      [] OTHER         -> stored

\* The statements with a denied call counted too.
Write_DenyCounts(op, stored, hour) ==
    CASE op = "insert" -> Row(hour, 1)
      [] op = "reset"  -> IF stored.present THEN Row(hour, 1) ELSE stored
      [] OTHER         -> IF stored.present
                          THEN Row(stored.hour_start, stored.requests_count + 1)
                          ELSE stored

\* The statement of the branch applied to the row the table holds now.
Write(op, stored, hour) ==
    CASE op = "insert" -> Row(hour, 1)
      [] op = "reset"  -> IF stored.present THEN Row(hour, 1) ELSE stored
      [] op = "incr"   -> IF stored.present
                          THEN Row(stored.hour_start, stored.requests_count + 1)
                          ELSE stored
      [] OTHER         -> stored

Returns(op) == op # "deny"

\* Two calls, one after the other, for the return value of the second.
check_rate_limit_Twice(stored, hour, lim) ==
    LET op1 == Decision(stored, hour, lim)
        mid == Write(op1, stored, hour)
        op2 == Decision(mid, hour, lim)
    IN  [ret |-> Returns(op2), row |-> Write(op2, mid, hour)]

\* One whole call: SELECT, branch, statement, return value.
check_rate_limit(stored, hour, lim) ==
    LET op == Decision(stored, hour, lim)
    IN  [ret |-> Returns(op), row |-> Write(op, stored, hour)]

Procs == {1, 2}

RaceIdle ==
    /\ racers = [p \in Procs |-> [pc |-> "idle", user |-> "u1", hour |-> 0, result |-> NoRow]]
    /\ admitted = [u \in Users |-> [h \in 0..MaxHour |-> 0]]
    /\ raised = 0
    /\ racecalls = 0

(* ----------------------------- TelegramBot ----------------------------- *)
Tasks == {1, 2}

\* va, vb: single videos; pl: a playlist; xx: a link of no supported platform
Urls == {"va", "vb", "pl", "xx"}

NoSession == [url |-> "none", type |-> "none", sid |-> 0]

IdleTask == [kind |-> "idle", user |-> "u1", pc |-> "idle", data |-> "none",
             url |-> "none", sid |-> 0]

NoReply == "none"

BotIdle ==
    /\ enable_playlist_download = TRUE
    /\ user_states = [u \in Users |-> NoSession]
    /\ tasks = [t \in Tasks |-> IdleTask]
    /\ updates = 0
    /\ budget = 0
    /\ submitted = [u \in Users |-> 0]
    /\ reply = NoReply
    /\ closed_absent = FALSE
    /\ stale = [u \in Users |-> FALSE]

\* the caller that uses the executor beside the playlist of the model: it
\* hands in one call after the other, without end
Others == {1}

\* a caller that has nothing in the executor
IdleCall == [st |-> "idle", part |-> FALSE]

PoolIdle ==
    /\ pool_queue = <<>>
    /\ busy = 0
    /\ others = [o \in Others |-> IdleCall]

BatchIdle ==
    /\ PoolIdle
    /\ max_concurrent_downloads = DefaultMaxConcurrent
    /\ entries = <<>>
    /\ max_videos = DefaultMaxVideos
    /\ pl_pc = "idle"
    /\ items = <<>>
    /\ semaphore = BatchConcurrency
    /\ results = <<>>
    /\ completed_files = 0
    /\ failed_files = 0

\* no exception
NoExc == [type |-> "none", msg |-> "none"]

\* download_video has not returned
NoOutcome == [success |-> FALSE, payload |-> "none"]

\* no download reports progress or has ended
ProgressIdle ==
    /\ clock = 0
    /\ last_update = 0
    /\ events = <<>>
    /\ hook_raised = FALSE
    /\ exc = NoExc
    /\ outcome = NoOutcome
    /\ shown = <<>>
    /\ overtaken = FALSE
    /\ buttons = [u \in Users |-> {}]

(* ------------------- the rate limiter called in sequence ---------------- *)
RateInit ==
    /\ RaceIdle
    /\ ProgressIdle
    /\ BotIdle
    /\ BatchIdle
    /\ rate_limit_per_user \in 0..MaxLimit
    /\ current_hour = 0
    /\ rate_limits = [u \in Users |-> NoRow]
    /\ calls = [u \in Users |-> <<>>]

CheckRateLimit(u) ==
    /\ Len(calls[u]) < MaxCalls
    /\ LET r == check_rate_limit(rate_limits[u], current_hour, rate_limit_per_user)
       IN  /\ rate_limits' = [rate_limits EXCEPT ![u] = r.row]
           /\ calls' = [calls EXCEPT ![u] =
                  Append(@, [hour |-> current_hour, ret |-> r.ret,
                             count |-> r.row.requests_count])]
    /\ UNCHANGED <<buttons, overtaken, progVars, rate_limit_per_user, current_hour, raceVars, botVars, batchVars>>

Tick ==
    /\ current_hour < MaxHour
    /\ current_hour' = current_hour + 1
    /\ submitted' = [u \in Users |-> 0]
    /\ UNCHANGED <<buttons, overtaken, progVars, rate_limit_per_user, rate_limits, calls, raceVars,
                   enable_playlist_download, user_states, tasks, updates, budget,
                   reply, ghostVars, batchVars>>

RateNext ==
    \/ \E u \in Users : CheckRateLimit(u)
    \/ Tick

SpecRate == RateInit /\ [][RateNext]_vars

(* ------------- check_rate_limit called by concurrent callers ------------ *)
\* Each call opens its own connection (line 120) and takes no lock between
\* its SELECT and its INSERT/UPDATE: the two statements are separate steps.
RaceInit ==
    /\ rate_limit_per_user \in 1..MaxLimit
    /\ current_hour = 0
    /\ rate_limits = [u \in Users |-> NoRow]
    /\ calls = [u \in Users |-> <<>>]
    /\ RaceIdle
    /\ ProgressIdle
    /\ BotIdle
    /\ BatchIdle

\* lines 118-126: read the clock, SELECT the row
RaceSelect(p, u) ==
    /\ racers[p].pc = "idle"
    /\ racecalls < MaxRaceCalls
    /\ racers' = [racers EXCEPT ![p] =
           [pc |-> "selected", user |-> u, hour |-> current_hour,
            result |-> rate_limits[u]]]
    /\ racecalls' = racecalls + 1
    /\ UNCHANGED <<buttons, overtaken, progVars, rateVars, admitted, raised, botVars, batchVars>>

\* lines 128-154: branch on the fetched row, run the statement, return
RaceWrite(p) ==
    /\ racers[p].pc = "selected"
    /\ LET u  == racers[p].user
           h  == racers[p].hour
           op == Decision(racers[p].result, h, rate_limit_per_user)
       IN  IF InsertConflicts(op, rate_limits[u])
           THEN /\ raised' = raised + 1
                /\ UNCHANGED <<rate_limits, admitted>>
           ELSE /\ rate_limits' = [rate_limits EXCEPT ![u] = Write(op, @, h)]
                /\ admitted' = IF Returns(op)
                               THEN [admitted EXCEPT ![u][h] = @ + 1]
                               ELSE admitted
                /\ UNCHANGED raised
    /\ racers' = [racers EXCEPT ![p].pc = "idle"]
    /\ UNCHANGED <<buttons, overtaken, progVars, rate_limit_per_user, current_hour, calls, racecalls, botVars,
                   batchVars>>

RaceNext ==
    \/ \E p \in Procs, u \in Users : RaceSelect(p, u)
    \/ \E p \in Procs : RaceWrite(p)
    \/ Tick

SpecRace == RaceInit /\ [][RaceNext]_vars

(* ------------------------ the update handlers -------------------------- *)
\* Handlers are coroutines: each action below runs one of them from one
\* await to the next; whatever lies between two awaits is one step.

\* is_supported_platform(url)
is_supported_platform(url) == url # "xx"

\* `'entries' in info and len(info['entries']) > 1` (line 537)
IsPlaylistInfo(url) == url = "pl"

\* line 498 with the result of check_rate_limit ignored
RateLimited_Ignored(ret) == FALSE

\* line 498: `if not self.db.check_rate_limit(...)`
RateLimited(ret) == ~ret

Free(t) == tasks[t].pc = "idle"

\* the handler of task t returns after sending `text` to its user
Finish(t, text) ==
    /\ tasks' = [tasks EXCEPT ![t] = IdleTask]
    /\ reply' = text

\* a dict is an object: a new one gets an identity no live reference holds
SidsInUse == {user_states[u].sid : u \in Users} \cup {tasks[t].sid : t \in Tasks}

FreshSid == CHOOSE i \in 1..(Cardinality(Users) + Cardinality(Tasks) + 1) :
                /\ i \notin SidsInUse
                /\ \A j \in 1..(i - 1) : j \in SidsInUse

\* handle_url up to `await self.downloader.get_video_info(url)` (494-526)
HandleUrlBegin(t, u, url) ==
    /\ Free(t)
    /\ updates < budget
    /\ updates' = updates + 1
    /\ submitted' = [submitted EXCEPT ![u] = @ + 1]
    /\ LET r == check_rate_limit(rate_limits[u], current_hour, rate_limit_per_user)
       IN  /\ rate_limits' = [rate_limits EXCEPT ![u] = r.row]
           /\ IF RateLimited(r.ret)
              THEN /\ reply' = "rate_limited"
                   /\ UNCHANGED tasks
              ELSE IF ~is_supported_platform(url)
              THEN /\ reply' = "unsupported"
                   /\ UNCHANGED tasks
              ELSE /\ tasks' = [tasks EXCEPT ![t] =
                         [kind |-> "url", user |-> u, pc |-> "info",
                          data |-> "none", url |-> url, sid |-> 0]]
                   /\ UNCHANGED reply
    /\ UNCHANGED <<buttons, overtaken, progVars, rate_limit_per_user, current_hour, calls, raceVars,
                   enable_playlist_download, user_states, budget, ghostVars,
                   batchVars>>

\* the session show_video_options (585-589) and handle_playlist (634-638)
\* store: whatever the user had is replaced
NewSession(old, url, type, sid) == [url |-> url, type |-> type, sid |-> sid]

\* a handler of user u stores or looks up the session of u now
Touch(u) == stale' = [stale EXCEPT ![u] = FALSE]

\* handle_playlist keeping the session before it tests
\* enable_playlist_download
SessionAfterInfo_StoredFirst(states, u, url, info, enabled, sid) ==
    IF info # "None" /\ IsPlaylistInfo(url)
    THEN [states EXCEPT ![u] = NewSession(@, url, "playlist", sid)]
    ELSE states

\* user_states once handle_url has the answer of get_video_info: the
\* returns of 529-535 and 600-606 stand before the assignment of 634-638,
\* and a single video stores nothing before its formats are known (563)
SessionAfterInfo(states, u, url, info, enabled, sid) ==
    IF info # "None" /\ IsPlaylistInfo(url) /\ enabled
    THEN [states EXCEPT ![u] = NewSession(@, url, "playlist", sid)]
    ELSE states

\* get_video_info returned (526-542): None, or the info of the url (every
\* exception inside get_video_info is caught and turned into None); a
\* playlist goes through handle_playlist (597-644)
GetVideoInfoReturned(t) ==
    /\ tasks[t].kind = "url"
    /\ tasks[t].pc = "info"
    /\ LET u == tasks[t].user
           url == tasks[t].url
       IN  \E info \in {"None", "info"} :
             /\ user_states' = SessionAfterInfo(user_states, u, url, info,
                                   enable_playlist_download, FreshSid)
             /\ IF info = "None"
                THEN /\ Finish(t, "no_info")
                     /\ UNCHANGED stale
                ELSE IF IsPlaylistInfo(url)
                THEN IF ~enable_playlist_download
                     THEN /\ Finish(t, "playlist_disabled")
                          /\ UNCHANGED stale
                     ELSE /\ Touch(u)
                          /\ Finish(t, "playlist_menu")
                ELSE /\ tasks' = [tasks EXCEPT ![t].pc = "formats"]
                     /\ UNCHANGED <<reply, stale>>
    /\ UNCHANGED <<overtaken, progVars, rateVars, raceVars, enable_playlist_download, updates, budget,
                   submitted, closed_absent, batchVars>>

\* the step of handle_url in the runs that do not follow the buttons
HandleUrlInfo(t) == GetVideoInfoReturned(t) /\ UNCHANGED buttons

\* show_video_options after get_available_formats returned (563-595)
ShowVideoOptions(t) ==
    /\ tasks[t].kind = "url"
    /\ tasks[t].pc = "formats"
    /\ user_states' = [user_states EXCEPT ![tasks[t].user] =
           NewSession(@, tasks[t].url, "video", FreshSid)]
    /\ Touch(tasks[t].user)
    /\ Finish(t, "video_menu")
    /\ UNCHANGED <<overtaken, progVars, rateVars, raceVars, enable_playlist_download, updates, budget,
                   submitted, closed_absent, batchVars>>

\* the step of show_video_options in the runs that do not follow the buttons
HandleUrlFormats(t) == ShowVideoOptions(t) /\ UNCHANGED buttons

\* the callback data the model hands to callback_handler
Tokens == {"video", "format"}

\* callback_handler up to `await query.answer()` (646-649)
CallbackBegin(t, u, data) ==
    /\ Free(t)
    /\ updates < budget
    /\ updates' = updates + 1
    /\ tasks' = [tasks EXCEPT ![t] =
           [kind |-> "cb", user |-> u, pc |-> "dispatch", data |-> data,
            url |-> "none", sid |-> 0]]
    /\ UNCHANGED <<buttons, overtaken, progVars, rateVars, raceVars, enable_playlist_download, user_states,
                   budget, submitted, reply, ghostVars, batchVars>>

\* the session check left out
SessionPresent_Unchecked(u) == TRUE

\* the session check of handle_download_choice (681), download_single_video
\* (912) and the other operations
SessionPresent(u) == user_states[u] # NoSession

\* the if/elif chain of callback_handler without the branch for "cancel"
Route_CancelDropped(data) ==
    CASE data \in {"video", "audio", "subs", "all"} -> "handle_download_choice"
      [] data = "playlist"                           -> "handle_playlist_download"
      [] data = "format"                             -> "handle_format_selection"
      [] data = "lang"                               -> "handle_language_selection"
      [] OTHER                                       -> "none"

\* the if/elif chain of callback_handler (654-675) on the tokens of the
\* model: "video" stands for video_<hash>, "playlist" for playlist_<hash>_<n>,
\* "format" for format_<id>, "confirm_playlist" for confirm_playlist_<n>;
\* data no branch matches falls through
Route(data) ==
    CASE data = "cancel"                             -> "cancel_operation"
      [] data \in {"video", "audio", "subs", "all"} -> "handle_download_choice"
      [] data = "playlist"                           -> "handle_playlist_download"
      [] data = "format"                             -> "handle_format_selection"
      [] data = "lang"                               -> "handle_language_selection"
      [] OTHER                                       -> "none"

\* handle_download_choice for a video_ token (677-693) and
\* show_quality_selection (703-734): a session without formats, as every
\* playlist session is (634-638), gets the "no formats" message
HandleDownloadChoice(t) ==
    /\ tasks[t].kind = "cb"
    /\ tasks[t].pc = "dispatch"
    /\ tasks[t].data = "video"
    /\ LET u == tasks[t].user
       IN  IF ~SessionPresent(u)
           THEN /\ Finish(t, "expired")
                /\ UNCHANGED stale
           ELSE /\ Touch(u)
                /\ IF user_states[u].type = "playlist"
                   THEN Finish(t, "no_formats")
                   ELSE \E formats \in {"none", "some"} :
                           Finish(t, IF formats = "none" THEN "no_formats"
                                     ELSE "quality_menu")
    /\ UNCHANGED <<buttons, overtaken, progVars, rateVars, raceVars, enable_playlist_download, user_states,
                   updates, budget, submitted, closed_absent, batchVars>>

\* handle_playlist_download for a playlist_ token (767-806): the session is
\* looked up, its type is not
HandlePlaylistDownload(t) ==
    /\ tasks[t].kind = "cb"
    /\ tasks[t].pc = "dispatch"
    /\ Route(tasks[t].data) = "handle_playlist_download"
    /\ LET u == tasks[t].user
       IN  IF ~SessionPresent(u)
           THEN /\ Finish(t, "expired")
                /\ UNCHANGED stale
           ELSE /\ Touch(u)
                /\ Finish(t, "confirm_menu")
    /\ UNCHANGED <<buttons, overtaken, progVars, rateVars, raceVars, enable_playlist_download, user_states,
                   updates, budget, submitted, closed_absent, batchVars>>

\* callback_handler returns without calling anything: no branch of 654-675
\* matches the data
CallbackUnrouted(t) ==
    /\ tasks[t].kind = "cb"
    /\ tasks[t].pc = "dispatch"
    /\ Route(tasks[t].data) = "none"
    /\ tasks' = [tasks EXCEPT ![t] = IdleTask]
    /\ UNCHANGED <<buttons, overtaken, progVars, rateVars, raceVars, enable_playlist_download, user_states,
                   updates, budget, submitted, reply, ghostVars, batchVars>>

\* `del self.user_states[user_id]` without the test before it: KeyError
\* when the user has no session
CloseSession_Unguarded(states, u) ==
    [states |-> [states EXCEPT ![u] = NoSession],
     raised |-> states[u] = NoSession]

\* the cleanup emptying user_states altogether
CloseSession_EveryUser(states, u) ==
    [states |-> [v \in Users |-> NoSession], raised |-> FALSE]

\* `if user_id in self.user_states: del self.user_states[user_id]`
\* (905-906, 1018-1019, 1073-1074)
CloseSession(states, u) ==
    IF states[u] # NoSession
    THEN [states |-> [states EXCEPT ![u] = NoSession], raised |-> FALSE]
    ELSE [states |-> states, raised |-> FALSE]

\* the cleanup at the end of an operation of task t, which ends with `text`
\* as its last message
Cleanup(t, text) ==
    LET u == tasks[t].user
        c == CloseSession(user_states, u)
    IN  /\ user_states' = c.states
        /\ closed_absent' = ~SessionPresent(u)
        /\ Touch(u)
        /\ Finish(t, IF c.raised THEN "KeyError" ELSE text)

\* cancel_operation, which callback_handler calls for "cancel" (664-665)
\* and which is not in src: the session of the user is destroyed
cancel_operation(t) ==
    /\ tasks[t].kind = "cb"
    /\ tasks[t].pc = "dispatch"
    /\ Route(tasks[t].data) = "cancel_operation"
    /\ Cleanup(t, "cancelled")
    /\ UNCHANGED <<buttons, overtaken, progVars, rateVars, raceVars, enable_playlist_download, updates, budget,
                   submitted, batchVars>>

\* handle_format_selection, which callback_handler calls for a format_ token
\* (670-671) and which is not in src: it hands the format to
\* download_single_video
handle_format_selection(t) ==
    /\ tasks[t].kind = "cb"
    /\ tasks[t].pc = "dispatch"
    /\ tasks[t].data = "format"

\* download_single_video up to `await query.edit_message_text` (908-928)
DownloadSingleVideoBegin(t) ==
    /\ handle_format_selection(t)
    /\ LET u == tasks[t].user
       IN  IF ~SessionPresent(u)
           THEN /\ Finish(t, "expired")
                /\ UNCHANGED stale
           ELSE /\ tasks' = [tasks EXCEPT ![t].pc = "progress_msg",
                                          ![t].url = user_states[u].url,
                                          ![t].sid = user_states[u].sid]
                /\ Touch(u)
                /\ UNCHANGED reply
    /\ UNCHANGED <<buttons, overtaken, progVars, rateVars, raceVars, enable_playlist_download, user_states,
                   updates, budget, submitted, closed_absent, batchVars>>

\* what an awaited call of the Telegram API does: return, or raise
\* (NetworkError, RetryAfter, BadRequest such as "message is not modified")
TelegramOutcomes == {"ok", "TelegramError"}

\* `await query.edit_message_text` of line 924 is over: it stands before
\* the try of 959, so what it raises leaves download_single_video at once;
\* otherwise download_video is called (930-963)
DownloadSingleVideoStart(t) ==
    /\ tasks[t].kind = "cb"
    /\ tasks[t].pc = "progress_msg"
    /\ \E sent \in TelegramOutcomes :
          IF sent = "ok"
          THEN /\ tasks' = [tasks EXCEPT ![t].pc = "downloading"]
               /\ UNCHANGED reply
          ELSE Finish(t, "TelegramError")
    /\ UNCHANGED <<buttons, overtaken, progVars, rateVars, raceVars, enable_playlist_download, user_states,
                   updates, budget, submitted, ghostVars, batchVars>>

\* how download_single_video ends once download_video has returned
\* (965-1015): the file is sent; the failure is reported; an exception of
\* the try block (sending the file, editing the status message) is caught
\* and reported by the edit_text of 1012; or that edit_text raises in its
\* turn, inside the except block, and the exception leaves the method
SingleVideoEndings == {"sent", "failed", "error", "TelegramError"}

\* download_video returned; the result is reported and, unless an exception
\* leaves the method before, the session of the user is deleted (965-1019)
DownloadSingleVideoEnd(t) ==
    /\ tasks[t].kind = "cb"
    /\ tasks[t].pc = "downloading"
    /\ \E end \in SingleVideoEndings :
          IF end = "TelegramError"
          THEN /\ Finish(t, "TelegramError")
               /\ UNCHANGED <<user_states, ghostVars>>
          ELSE Cleanup(t, end)
    /\ UNCHANGED <<buttons, overtaken, progVars, rateVars, raceVars, enable_playlist_download, updates, budget,
                   submitted, batchVars>>

BotStart(b) ==
    /\ current_hour = MaxHour - 1
    /\ rate_limits = [u \in Users |-> NoRow]
    /\ calls = [u \in Users |-> <<>>]
    /\ RaceIdle
    /\ ProgressIdle
    /\ enable_playlist_download \in BOOLEAN
    /\ user_states = [u \in Users |-> NoSession]
    /\ tasks = [t \in Tasks |-> IdleTask]
    /\ updates = 0
    /\ budget = b
    /\ submitted = [u \in Users |-> 0]
    /\ reply = NoReply
    /\ closed_absent = FALSE
    /\ stale = [u \in Users |-> FALSE]
    /\ BatchIdle

BotInit ==
    /\ rate_limit_per_user \in {1, MaxLimit}
    /\ BotStart(MaxUpdates)

Next ==
    \/ \E t \in Tasks, u \in Users, url \in Urls : HandleUrlBegin(t, u, url)
    \/ \E t \in Tasks : HandleUrlInfo(t)
    \/ \E t \in Tasks : HandleUrlFormats(t)
    \/ \E t \in Tasks, u \in Users, d \in Tokens : CallbackBegin(t, u, d)
    \/ \E t \in Tasks : HandleDownloadChoice(t)
    \/ \E t \in Tasks : DownloadSingleVideoBegin(t)
    \/ \E t \in Tasks : DownloadSingleVideoStart(t)
    \/ \E t \in Tasks : DownloadSingleVideoEnd(t)
    \/ Tick

Spec == BotInit /\ [][Next]_vars

(* ------------- the handlers run one update after the other ------------- *)
\* Application.builder().token(...).build() (line 1186) sets no
\* concurrent_updates: a handler returns before the next update is handled.
SeqNext ==
    \/ \E u \in Users, url \in Urls : HandleUrlBegin(1, u, url)
    \/ HandleUrlInfo(1)
    \/ HandleUrlFormats(1)
    \/ \E u \in Users, d \in Tokens : CallbackBegin(1, u, d)
    \/ HandleDownloadChoice(1)
    \/ DownloadSingleVideoBegin(1)
    \/ DownloadSingleVideoStart(1)
    \/ DownloadSingleVideoEnd(1)
    \/ Tick

SpecSeq == BotInit /\ [][SeqNext]_vars

(* ------------- handle_url under the default rate limit ------------------ *)
AdmitInit ==
    /\ rate_limit_per_user = DefaultRateLimit
    /\ BotStart(MaxSubmits)

\* the submissions are handled one after the other, as Application does
\* without concurrent_updates (line 1186)
AdmitNext ==
    \/ \E u \in Users, url \in Urls : HandleUrlBegin(1, u, url)
    \/ HandleUrlInfo(1)
    \/ HandleUrlFormats(1)
    \/ Tick

SpecAdmit == AdmitInit /\ [][AdmitNext]_vars

(* ------------------- two downloads of one session end ------------------- *)
\* one video url and the format_ token alone: the runs in which sessions are
\* stored, downloaded and cleaned up, with two handlers at a time
CloseNext ==
    \/ \E t \in Tasks, u \in Users : HandleUrlBegin(t, u, "va")
    \/ \E t \in Tasks : HandleUrlInfo(t)
    \/ \E t \in Tasks : HandleUrlFormats(t)
    \/ \E t \in Tasks, u \in Users : CallbackBegin(t, u, "format")
    \/ \E t \in Tasks : DownloadSingleVideoBegin(t)
    \/ \E t \in Tasks : DownloadSingleVideoStart(t)
    \/ \E t \in Tasks : DownloadSingleVideoEnd(t)

SpecClose == BotInit /\ [][CloseNext]_vars

(* ----------------- the choices of a session, in sequence ---------------- *)
\* the callback data of the buttons the bot sends: video_<hash> (575),
\* format_<id> (724), playlist_<hash>_<n> (624-627), confirm_playlist_<n>
\* (797) and cancel (629, 798)
ChoiceTokens == {"video", "format", "playlist", "confirm_playlist", "cancel"}

\* More than the session TTL passes in which no handler of user u runs. The
\* TTL is the spec's (4.2: inactivity beyond the TTL); the program has none.
SessionTTLPasses(u) ==
    /\ SessionPresent(u)
    /\ ~stale[u]
    /\ \A t \in Tasks : tasks[t].pc = "idle" \/ tasks[t].user # u
    /\ stale' = [stale EXCEPT ![u] = TRUE]
    /\ UNCHANGED <<buttons, overtaken, progVars, rateVars, raceVars, enable_playlist_download, user_states,
                   tasks, updates, budget, submitted, reply, closed_absent,
                   batchVars>>

\* one update after the other, as Application does without
\* concurrent_updates (line 1186)
ChoiceSeqNext ==
    \/ \E u \in Users, url \in Urls : HandleUrlBegin(1, u, url)
    \/ HandleUrlInfo(1)
    \/ HandleUrlFormats(1)
    \/ \E u \in Users, d \in ChoiceTokens : CallbackBegin(1, u, d)
    \/ HandleDownloadChoice(1)
    \/ HandlePlaylistDownload(1)
    \/ CallbackUnrouted(1)
    \/ cancel_operation(1)
    \/ DownloadSingleVideoBegin(1)
    \/ DownloadSingleVideoStart(1)
    \/ DownloadSingleVideoEnd(1)
    \/ \E u \in Users : SessionTTLPasses(u)

SpecChoiceSeq == BotInit /\ [][ChoiceSeqNext]_vars

(* ------------------ the choices of a session, concurrent ---------------- *)
\* a single video and a playlist
ChoiceUrls == {"va", "pl"}

ChoiceNext ==
    \/ \E t \in Tasks, u \in Users, url \in ChoiceUrls : HandleUrlBegin(t, u, url)
    \/ \E t \in Tasks : HandleUrlInfo(t)
    \/ \E t \in Tasks : HandleUrlFormats(t)
    \/ \E t \in Tasks, u \in Users, d \in ChoiceTokens : CallbackBegin(t, u, d)
    \/ \E t \in Tasks : HandleDownloadChoice(t)
    \/ \E t \in Tasks : HandlePlaylistDownload(t)
    \/ \E t \in Tasks : CallbackUnrouted(t)
    \/ \E t \in Tasks : cancel_operation(t)
    \/ \E t \in Tasks : DownloadSingleVideoBegin(t)
    \/ \E t \in Tasks : DownloadSingleVideoStart(t)
    \/ \E t \in Tasks : DownloadSingleVideoEnd(t)

SpecChoice == BotInit /\ [][ChoiceNext]_vars

(* ---------------------- the buttons of the menus ------------------------ *)
\* two single videos and a playlist
TokenUrls == {"va", "vb", "pl"}

\* the menu of `url` is in the chat of user u: video_<hash(url)> and its
\* siblings (576-580), or playlist_<hash(url)>_<n> (625-628)
Keyboard(chat, u, url) == [chat EXCEPT ![u] = @ \cup {url}]

\* handle_url and handle_playlist with the chat followed: the
\* `loading_msg.edit_text(..., reply_markup=...)` of 640-644 puts the
\* playlist buttons of the url into the chat
HandleUrlInfoKeyboard(t) ==
    /\ GetVideoInfoReturned(t)
    /\ buttons' = IF tasks'[t].pc = "idle" /\ reply' = "playlist_menu"
                  THEN Keyboard(buttons, tasks[t].user, tasks[t].url)
                  ELSE buttons

\* show_video_options with the chat followed (576-595)
ShowVideoOptionsKeyboard(t) ==
    /\ ShowVideoOptions(t)
    /\ buttons' = Keyboard(buttons, tasks[t].user, tasks[t].url)

\* the data of the button of the menu of url a that the model presses: the
\* first button of the keyboard
ButtonData(a) == IF IsPlaylistInfo(a) THEN "playlist" ELSE "video"

\* user u presses a button of a menu still in the chat, whatever was sent
\* after it; callback_handler runs up to `await query.answer()` (646-652).
\* The field url of the task is the url whose hash the data carries. The
\* handler edits the message of the button (684, 771, 727, 802), so the
\* button is pressed once.
PressButton(t, u, a) ==
    /\ Free(t)
    /\ updates < budget
    /\ a \in buttons[u]
    /\ updates' = updates + 1
    /\ buttons' = [buttons EXCEPT ![u] = @ \ {a}]
    /\ tasks' = [tasks EXCEPT ![t] =
           [kind |-> "cb", user |-> u, pc |-> "dispatch",
            data |-> ButtonData(a), url |-> a, sid |-> 0]]
    /\ UNCHANGED <<overtaken, progVars, rateVars, raceVars, enable_playlist_download, user_states,
                   budget, submitted, reply, ghostVars, batchVars>>

\* one update after the other, as Application does without
\* concurrent_updates (line 1186)
TokenNext ==
    \/ \E u \in Users, url \in TokenUrls : HandleUrlBegin(1, u, url)
    \/ HandleUrlInfoKeyboard(1)
    \/ ShowVideoOptionsKeyboard(1)
    \/ \E u \in Users, a \in TokenUrls : PressButton(1, u, a)
    \/ HandleDownloadChoice(1)
    \/ HandlePlaylistDownload(1)

SpecToken == BotInit /\ [][TokenNext]_vars

(* ---------------- EnhancedDownloader.download_playlist ------------------ *)
\* an entry of info['entries']: a video with a url, None or {} ("empty"),
\* a dict without url and webpage_url ("nourl"), or something that is no
\* dict, on which entry.get raises ("bad")
EntryKinds == {"video", "empty", "nourl", "bad"}

SeqsUpTo(S, n) == UNION {[1..k -> S] : k \in 0..n}

\* the cut taking one entry more than max_videos
Cut_OneMore(es, k) == SubSeq(es, 1, IF Len(es) < k + 1 THEN Len(es) ELSE k + 1)

\* entries[:max_videos] (line 288)
Cut(es, k) == SubSeq(es, 1, IF Len(es) < k THEN Len(es) ELSE k)

WaitingItem == [st |-> "waiting", out |-> "none"]

BatchInit ==
    /\ rate_limit_per_user = DefaultRateLimit
    /\ current_hour = 0
    /\ rate_limits = [u \in Users |-> NoRow]
    /\ calls = [u \in Users |-> <<>>]
    /\ RaceIdle
    /\ ProgressIdle
    /\ BotIdle
    /\ max_concurrent_downloads \in {MinWorkers, DefaultMaxConcurrent}
    /\ entries \in SeqsUpTo(EntryKinds, MaxEntries)
    /\ max_videos \in {MaxEntries - 1, DefaultMaxVideos}
    /\ pl_pc = "idle"
    /\ items = <<>>
    /\ semaphore = BatchConcurrency
    /\ results = <<>>
    /\ completed_files = 0
    /\ failed_files = 0
    /\ PoolIdle

\* the calls in the work queue of the executor
ItemJob(i) == [kind |-> "item", n |-> i]

InfoJob == [kind |-> "plinfo", n |-> 0]

OtherJob(o) == [kind |-> "other", n |-> o]

\* a worker thread takes a call whatever the number of calls running
WorkerFree_Unbounded(n, max) == TRUE

\* ThreadPoolExecutor(max_workers=max) (line 180): a queued call is taken
\* while fewer than max worker threads are running one
WorkerFree(n, max) == n < max

\* the worker thread stays taken when the call raised
Release_OnReturnOnly(n, out) == IF out = "error" THEN n ELSE n - 1

\* the worker thread that ran a call is free again when the call has
\* returned or raised (the executor stores either in the future)
Release(n, out) == n - 1

\* the semaphore is not given back
SemaphoreRelease_Forgotten(v) == v

\* leaving `async with semaphore` (line 295), by return or by exception
SemaphoreRelease(v) == v + 1

\* loop.run_in_executor(self.executor, f) (209, 271, 345): the call joins
\* the work queue
Enqueue(job) == pool_queue' = Append(pool_queue, job)

\* a worker thread takes the call at the head of the work queue
Take(job) ==
    /\ pool_queue # <<>>
    /\ Head(pool_queue) = job
    /\ WorkerFree(busy, max_concurrent_downloads)
    /\ pool_queue' = Tail(pool_queue)
    /\ busy' = busy + 1

\* the work queue once the future of `job` is cancelled: no worker runs it
Without(q, job) == SelectSeq(q, LAMBDA j : j # job)

\* start_playlist_download calls download_playlist, whose get_video_info
\* hands extract_info to the executor (808-855, 279-284, 209)
StartPlaylistDownload ==
    /\ pl_pc = "idle"
    /\ pl_pc' = "info_wait"
    /\ Enqueue(InfoJob)
    /\ UNCHANGED <<buttons, overtaken, progVars, rateVars, raceVars, botVars, max_concurrent_downloads, entries,
                   max_videos, items, semaphore, results, completed_files,
                   failed_files, busy, others>>

\* a worker thread starts the extract_info of get_video_info (205-209)
PlaylistInfoRun ==
    /\ pl_pc = "info_wait"
    /\ Take(InfoJob)
    /\ pl_pc' = "info"
    /\ UNCHANGED <<buttons, overtaken, progVars, rateVars, raceVars, botVars, max_concurrent_downloads, entries,
                   max_videos, items, semaphore, results, completed_files,
                   failed_files, others>>

\* get_video_info returned: None when extract_info raised (212-214), and
\* the result is then one failure (285-286); otherwise one download_single
\* per entry of the cut is created and gathered (288-307)
PlaylistInfo ==
    /\ pl_pc = "info"
    /\ \E info \in {"None", "info"} :
          IF info = "None"
          THEN /\ pl_pc' = "invalid"
               /\ results' = <<[success |-> FALSE, payload |-> "msg"]>>
               /\ busy' = Release(busy, "error")
               /\ UNCHANGED items
          ELSE /\ pl_pc' = "gather"
               /\ items' = [i \in 1..Len(Cut(entries, max_videos)) |-> WaitingItem]
               /\ busy' = Release(busy, "ok_file")
               /\ UNCHANGED results
    /\ UNCHANGED <<buttons, overtaken, progVars, rateVars, raceVars, botVars, max_concurrent_downloads, entries,
                   max_videos, semaphore, completed_files, failed_files,
                   pool_queue, others>>

\* item i ends while an item before it in the playlist has not
Overtakes(i) == \E j \in 1..(i - 1) : items[j].st # "done"

\* `async with semaphore` lets a task in whatever the value
SemaphoreFree_Always(v) == TRUE

\* `async with semaphore` (line 295): a task gets in while the value is > 0
SemaphoreFree(v) == v > 0

\* download_single enters the semaphore (294-303): an empty entry and an
\* entry without url return at once, entry.get of a non-dict raises, a
\* video goes on into download_video, which hands the fetch to the executor
ItemEnter(i) ==
    /\ pl_pc = "gather"
    /\ i \in 1..Len(items)
    /\ items[i].st = "waiting"
    /\ SemaphoreFree(semaphore)
    /\ LET e == entries[i]
       IN  IF e = "video"
           THEN /\ items' = [items EXCEPT ![i].st = "queued"]
                /\ semaphore' = semaphore - 1
                /\ Enqueue(ItemJob(i))
                /\ UNCHANGED overtaken
           ELSE /\ items' = [items EXCEPT ![i] =
                       [st |-> "done",
                        out |-> CASE e = "empty" -> "empty"
                                  [] e = "nourl" -> "nourl"
                                  [] OTHER       -> "exc"]]
                /\ overtaken' = (overtaken \/ Overtakes(i))
                /\ UNCHANGED <<semaphore, pool_queue>>
    /\ UNCHANGED buttons
    /\ UNCHANGED <<progVars, rateVars, raceVars, botVars, max_concurrent_downloads,
                   entries, max_videos, pl_pc, results, completed_files,
                   failed_files, busy, others>>

Running == {i \in 1..Len(items) : items[i].st = "running"}

\* a worker thread of self.executor takes the fetch (180, 271)
ItemRun(i) ==
    /\ pl_pc = "gather"
    /\ i \in 1..Len(items)
    /\ items[i].st = "queued"
    /\ Take(ItemJob(i))
    /\ items' = [items EXCEPT ![i].st = "running"]
    /\ UNCHANGED <<buttons, overtaken, progVars, rateVars, raceVars, botVars, max_concurrent_downloads, entries,
                   max_videos, pl_pc, semaphore, results, completed_files,
                   failed_files, others>>

\* what ydl.extract_info(url, download=True) can do: raise; return after the
\* progress hook saw 'finished' (filename set, 258-260); or return without
\* such an event, as for a file that is on disk already (filename stays None)
FetchOutcomes == {"ok_file", "ok_nofile", "error"}

\* an item whose fetch raised starts over
FetchEnds_RetryOnError(o) ==
    IF o = "error" THEN [st |-> "waiting", out |-> "none"]
                   ELSE [st |-> "done", out |-> o]

\* lines 271-277: whatever the download() call did, download_video returns
\* and the item is over
FetchEnds(o) == [st |-> "done", out |-> o]

\* the fetch ended; download_video returns its tuple (273-277) and
\* download_single leaves the semaphore
ItemFetchDone(i) ==
    /\ pl_pc = "gather"
    /\ i \in 1..Len(items)
    /\ items[i].st = "running"
    /\ \E o \in FetchOutcomes :
          /\ items' = [items EXCEPT ![i] = FetchEnds(o)]
          /\ busy' = Release(busy, o)
    /\ semaphore' = SemaphoreRelease(semaphore)
    /\ overtaken' = (overtaken \/ Overtakes(i))
    /\ UNCHANGED buttons
    /\ UNCHANGED <<progVars, rateVars, raceVars, botVars, max_concurrent_downloads, entries,
                   max_videos, pl_pc, results, completed_files, failed_files,
                   pool_queue, others>>

\* the tuple an item contributes to processed_results (310-315): the tuple
\* download_single returned, or (False, str(exception), {})
ResultOf(out) ==
    CASE out = "ok_file"   -> [success |-> TRUE, payload |-> "file"]
      [] out = "ok_nofile" -> [success |-> TRUE, payload |-> "None"]
      [] OTHER             -> [success |-> FALSE, payload |-> "msg"]

RECURSIVE Processed_DropExceptions(_)
\* the loop of 310-315 with the results that are exceptions left out
Processed_DropExceptions(its) ==
    IF its = <<>> THEN <<>>
    ELSE IF Head(its).out = "exc" THEN Processed_DropExceptions(Tail(its))
    ELSE <<ResultOf(Head(its).out)>> \o Processed_DropExceptions(Tail(its))

\* the results in the reverse of the order of the tasks
Processed_Reversed(its) ==
    [i \in 1..Len(its) |-> ResultOf(its[Len(its) + 1 - i].out)]

RECURSIVE Processed(_)
\* the loop of 310-315 over the gathered results, in order
Processed(its) ==
    IF its = <<>> THEN <<>>
    ELSE <<ResultOf(Head(its).out)>> \o Processed(Tail(its))

\* gather returning as soon as one task has raised
GatherComplete_FirstException(its) ==
    \/ \E i \in 1..Len(its) : its[i].out = "exc"
    \/ \A i \in 1..Len(its) : its[i].st = "done"

\* asyncio.gather(*tasks, return_exceptions=True) returns when every task
\* has ended, an exception being one more result (line 307)
GatherComplete(its) == \A i \in 1..Len(its) : its[i].st = "done"

\* download_playlist returns processed_results (307-317)
PlaylistReturn ==
    /\ pl_pc = "gather"
    /\ GatherComplete(items)
    /\ results' = Processed(items)
    /\ pl_pc' = "returned"
    /\ UNCHANGED <<buttons, overtaken, progVars, rateVars, raceVars, botVars, max_concurrent_downloads, entries,
                   max_videos, items, semaphore, completed_files, failed_files,
                   poolVars>>

\* `if success and filename_or_error` (line 862)
Completed(r) == r.success /\ r.payload = "file"

\* the loop of start_playlist_download over the results (857-873)
ReportPlaylist ==
    /\ pl_pc \in {"returned", "invalid"}
    /\ completed_files' = Cardinality({i \in 1..Len(results) : Completed(results[i])})
    /\ failed_files' = Cardinality({i \in 1..Len(results) : ~Completed(results[i])})
    /\ pl_pc' = IF pl_pc = "returned" THEN "reported" ELSE "reported_invalid"
    /\ UNCHANGED <<buttons, overtaken, progVars, rateVars, raceVars, botVars, max_concurrent_downloads, entries,
                   max_videos, items, semaphore, results, poolVars>>

BatchNext ==
    \/ StartPlaylistDownload
    \/ PlaylistInfoRun
    \/ PlaylistInfo
    \/ \E i \in 1..MaxEntries : ItemEnter(i)
    \/ \E i \in 1..MaxEntries : ItemRun(i)
    \/ \E i \in 1..MaxEntries : ItemFetchDone(i)
    \/ PlaylistReturn
    \/ ReportPlaylist

SpecBatch == BatchInit /\ [][BatchNext]_vars

(* ---------------- download_playlist cancelled in its gather ------------- *)
\* the items that have not ended
Unfinished == {i \in 1..Len(items) : items[i].st # "done"}

\* the items inside `async with semaphore`
HoldSemaphore == {i \in 1..Len(items) : items[i].st \in {"queued", "running"}}

\* what the cancellation of its coroutine makes of an item: one that waits
\* for the semaphore or for a worker thread never starts; the thread of a
\* running one cannot be stopped and goes on without anyone awaiting it
CancelledItem(it) ==
    CASE it.st \in {"waiting", "queued"} -> [st |-> "cancelled", out |-> "none"]
      [] it.st = "running"               -> [st |-> "orphan", out |-> "none"]
      [] OTHER                           -> it

\* the task awaiting download_playlist is cancelled at the gather of line
\* 307: gather cancels the download_single tasks, each leaves its
\* `async with semaphore`, and CancelledError, which `except Exception`
\* (319) does not catch, leaves download_playlist without a return value
PlaylistCancelled ==
    /\ pl_pc = "gather"
    /\ Unfinished # {}
    /\ pl_pc' = "cancelled"
    /\ items' = [i \in 1..Len(items) |-> CancelledItem(items[i])]
    /\ pool_queue' = SelectSeq(pool_queue, LAMBDA j : j.kind # "item")
    /\ semaphore' = semaphore + Cardinality(HoldSemaphore)
    /\ UNCHANGED <<buttons, overtaken, progVars, rateVars, raceVars, botVars, max_concurrent_downloads,
                   entries, max_videos, results, completed_files, failed_files,
                   busy, others>>

\* the fetch of a cancelled item ends on its worker thread: nothing awaits
\* its result
OrphanFetchDone(i) ==
    /\ pl_pc = "cancelled"
    /\ i \in 1..Len(items)
    /\ items[i].st = "orphan"
    /\ \E o \in FetchOutcomes :
          /\ items' = [items EXCEPT ![i] = [st |-> "dropped", out |-> o]]
          /\ busy' = Release(busy, o)
    /\ UNCHANGED <<buttons, overtaken, progVars, rateVars, raceVars, botVars, max_concurrent_downloads,
                   entries, max_videos, pl_pc, semaphore, results,
                   completed_files, failed_files, pool_queue, others>>

BatchCancelNext ==
    \/ BatchNext
    \/ PlaylistCancelled
    \/ \E i \in 1..MaxEntries : OrphanFetchDone(i)

SpecBatchCancel == BatchInit /\ [][BatchCancelNext]_vars

(* ------------- the executor shared with the other callers --------------- *)
\* TelegramBot has one EnhancedDownloader (line 369) and so one executor:
\* the info lookups of handle_url, the single downloads and the subtitle
\* extractions of all users run on the worker threads the playlist uses.

\* another caller awaits run_in_executor: the extract_info of
\* get_video_info (209), of download_video (271) or of extract_subtitles (345)
OtherSubmit(o) ==
    /\ others[o].st = "idle"
    /\ others' = [others EXCEPT ![o] = [st |-> "queued", part |-> FALSE]]
    /\ Enqueue(OtherJob(o))
    /\ UNCHANGED <<buttons, overtaken, progVars, rateVars, raceVars, botVars, max_concurrent_downloads, entries,
                   max_videos, pl_pc, items, semaphore, results, completed_files,
                   failed_files, busy>>

\* a worker thread starts the call
OtherRun(o) ==
    /\ others[o].st = "queued"
    /\ Take(OtherJob(o))
    /\ others' = [others EXCEPT ![o].st = "running"]
    /\ UNCHANGED <<buttons, overtaken, progVars, rateVars, raceVars, botVars, max_concurrent_downloads, entries,
                   max_videos, pl_pc, items, semaphore, results, completed_files,
                   failed_files>>

\* the call is the extract_info(url, download=True) of download_video (268)
\* and has begun to write its output file; nothing in download_video tells
\* it to stop
OtherProgress(o) ==
    /\ others[o].st \in {"running", "orphan"}
    /\ ~others[o].part
    /\ others' = [others EXCEPT ![o].part = TRUE]
    /\ UNCHANGED <<buttons, overtaken, progVars, rateVars, raceVars, botVars, max_concurrent_downloads, entries,
                   max_videos, pl_pc, items, semaphore, results, completed_files,
                   failed_files, pool_queue, busy>>

\* extract_info returned or raised: the call is over, awaited or not
OtherDone(o) ==
    /\ others[o].st \in {"running", "orphan"}
    /\ \E out \in FetchOutcomes : busy' = Release(busy, out)
    /\ others' = [others EXCEPT ![o] = IdleCall]
    /\ UNCHANGED <<buttons, overtaken, progVars, rateVars, raceVars, botVars, max_concurrent_downloads, entries,
                   max_videos, pl_pc, items, semaphore, results, completed_files,
                   failed_files, pool_queue>>

\* the coroutine awaiting the call is cancelled: CancelledError is no
\* Exception, so the `except Exception` of 212, 275 and 356 lets it through
\* and the caller ends cancelled. A call still in the queue is never run; a
\* call a thread is running cannot be stopped and goes on to its end.
OtherCancel(o) ==
    /\ others[o].st \in {"queued", "running"}
    /\ IF others[o].st = "queued"
       THEN /\ pool_queue' = Without(pool_queue, OtherJob(o))
            /\ others' = [others EXCEPT ![o] = IdleCall]
       ELSE /\ others' = [others EXCEPT ![o].st = "orphan"]
            /\ UNCHANGED pool_queue
    /\ UNCHANGED <<buttons, overtaken, progVars, rateVars, raceVars, botVars, max_concurrent_downloads, entries,
                   max_videos, pl_pc, items, semaphore, results, completed_files,
                   failed_files, busy>>

\* the playlists of the runs with competing callers hold videos only: an
\* entry of another kind never reaches the executor
PoolEntryKinds == {"video"}

PoolInit ==
    /\ rate_limit_per_user = DefaultRateLimit
    /\ current_hour = 0
    /\ rate_limits = [u \in Users |-> NoRow]
    /\ calls = [u \in Users |-> <<>>]
    /\ RaceIdle
    /\ ProgressIdle
    /\ BotIdle
    /\ max_concurrent_downloads \in 1..MinWorkers
    /\ entries \in SeqsUpTo(PoolEntryKinds, MaxEntries)
    /\ max_videos = DefaultMaxVideos
    /\ pl_pc = "idle"
    /\ items = <<>>
    /\ semaphore = BatchConcurrency
    /\ results = <<>>
    /\ completed_files = 0
    /\ failed_files = 0
    /\ PoolIdle

PoolNext ==
    \/ BatchNext
    \/ \E o \in Others : OtherSubmit(o)
    \/ \E o \in Others : OtherRun(o)
    \/ \E o \in Others : OtherProgress(o)
    \/ \E o \in Others : OtherDone(o)
    \/ \E o \in Others : OtherCancel(o)

SpecPool == PoolInit /\ [][PoolNext]_vars

\* Every call a worker thread runs ends (the premise that each fetch
\* terminates), the event loop runs every coroutine that can go on, and an
\* idle worker thread takes the call at the head of the queue.
PoolFairness ==
    /\ WF_vars(PlaylistInfoRun \/ PlaylistInfo \/ PlaylistReturn)
    /\ \A i \in 1..MaxEntries :
          WF_vars(ItemEnter(i) \/ ItemRun(i) \/ ItemFetchDone(i))
    /\ \A o \in Others : WF_vars(OtherRun(o) \/ OtherDone(o))

SpecPoolFair == PoolInit /\ [][PoolNext]_vars /\ PoolFairness

(* ------------- the progress updates of download_single_video ----------- *)
\* line 933: a progress event closer than this to the last one let through
\* is dropped
GateSeconds == 2

\* d['status'] as yt_dlp reports it to a progress hook
Statuses == {"downloading", "finished", "error"}

Terminal == {"finished", "error"}

\* line 933 with the gate at one second
Gated_OneSecond(now, last) == now - last < 1

\* line 933: `if time.time() - last_update < 2: return`
Gated(now, last) == now - last < GateSeconds

\* line 953: asyncio.create_task schedules the edit on the running event
\* loop of the calling thread and raises RuntimeError where there is none;
\* yt_dlp calls the hook on the thread that runs extract_info, which is a
\* worker thread of the executor (line 271)
CreateTaskOutcomes == {"scheduled", "RuntimeError"}

\* a 'downloading' event forwarded whatever the gate says
Forwards_Ungated(status, now, last) == status = "downloading"

\* lines 930-957: the event passes the gate or is dropped; one that passes
\* moves last_update, and is forwarded only when it is a 'downloading' one
Forwards(status, now, last) == ~Gated(now, last) /\ status = "downloading"

\* time.time() counts from 1970 and last_update starts at 0 (line 928): the
\* download starts later than the gate after 0
ProgressInit ==
    /\ rate_limit_per_user = DefaultRateLimit
    /\ current_hour = 0
    /\ rate_limits = [u \in Users |-> NoRow]
    /\ calls = [u \in Users |-> <<>>]
    /\ RaceIdle
    /\ BotIdle
    /\ BatchIdle
    /\ clock \in GateSeconds..(GateSeconds + 1)
    /\ last_update = 0
    /\ events = <<>>
    /\ hook_raised = FALSE
    /\ exc = NoExc
    /\ outcome = NoOutcome
    /\ shown = <<>>
    /\ overtaken = FALSE
    /\ buttons = [u \in Users |-> {}]

ProgressOver ==
    \/ hook_raised
    \/ \E i \in 1..Len(events) : events[i].status \in Terminal

\* lines 254-262 and 930-957: yt_dlp reports an event to progress_hook,
\* which hands it to progress_callback
ProgressHook(status, out) ==
    /\ ~ProgressOver
    /\ Len(events) < MaxEvents
    /\ LET fwd == Forwards(status, clock, last_update)
       IN  /\ (~fwd => out = "scheduled")
           /\ last_update' = IF Gated(clock, last_update) THEN last_update
                                                          ELSE clock
           /\ events' = Append(events,
                             [status |-> status, at |-> clock, fwd |-> fwd])
           /\ hook_raised' = (fwd /\ out = "RuntimeError")
    /\ UNCHANGED <<buttons, overtaken, rateVars, raceVars, botVars, batchVars, clock, endVars>>

\* a second passes
Second ==
    /\ ~ProgressOver
    /\ clock < GateSeconds + MaxSeconds
    /\ clock' = clock + 1
    /\ UNCHANGED <<buttons, overtaken, rateVars, raceVars, botVars, batchVars, last_update, events,
                   hook_raised, endVars>>

ProgressNext ==
    \/ \E status \in Statuses, out \in CreateTaskOutcomes :
          ProgressHook(status, out)
    \/ Second

SpecProgress == ProgressInit /\ [][ProgressNext]_vars

(* ------------------ how a download ends for the user -------------------- *)
\* what makes the yt_dlp call of download_video raise
ExcKinds == {"too_large", "bad_format", "network", "extractor"}

\* the messages the exceptions carry
Messages == {"m1", "m2"}

Exceptions == [type : ExcKinds, msg : Messages]

\* asyncio.CancelledError: not an Exception, so `except Exception` (275,
\* 1010) lets it pass
CancelledError == [type |-> "CancelledError", msg |-> "none"]

\* str(e): the message of the exception, without its type
Str(e) == e.msg

\* the names a failure is to be reported under
Categories == {"SizeExceeded", "UnsupportedFormat", "NetworkFailure",
               "ExtractionFailure", "Cancelled"}

EndInit ==
    /\ rate_limit_per_user = DefaultRateLimit
    /\ current_hour = 0
    /\ rate_limits = [u \in Users |-> NoRow]
    /\ calls = [u \in Users |-> <<>>]
    /\ RaceIdle
    /\ ProgressIdle
    /\ BotIdle
    /\ BatchIdle

DownloadUnderWay == exc = NoExc /\ outcome = NoOutcome /\ Len(shown) < MaxDownloads

\* lines 264-273: extract_info returns and download_video returns the tuple;
\* filename is None when no 'finished' event set it
DownloadVideoReturns(file) ==
    /\ DownloadUnderWay
    /\ outcome' = [success |-> TRUE, payload |-> file]
    /\ UNCHANGED <<buttons, overtaken, rateVars, raceVars, botVars, batchVars, clock, last_update,
                   events, hook_raised, exc, shown>>

\* lines 275-277: the call raises and download_video returns
\* (False, str(e), {})
DownloadVideoFails(e) ==
    /\ DownloadUnderWay
    /\ exc' = e
    /\ outcome' = [success |-> FALSE, payload |-> Str(e)]
    /\ UNCHANGED <<buttons, overtaken, rateVars, raceVars, botVars, batchVars, clock, last_update,
                   events, hook_raised, shown>>

\* the await of line 271 is cancelled: nothing is returned
DownloadVideoCancelled ==
    /\ DownloadUnderWay
    /\ exc' = CancelledError
    /\ UNCHANGED <<buttons, overtaken, rateVars, raceVars, botVars, batchVars, clock, last_update,
                   events, hook_raised, outcome, shown>>

\* lines 965-1008: the text download_single_video ends its status message
\* with
FinalText(o) ==
    IF o.success /\ o.payload # "None"
    THEN [head |-> "done", body |-> "none"]
    ELSE [head |-> "failed", body |-> o.payload]

\* lines 965-1008 of download_single_video
ShowResult ==
    /\ outcome # NoOutcome
    /\ shown' = Append(shown, FinalText(outcome))
    /\ outcome' = NoOutcome
    /\ exc' = NoExc
    /\ UNCHANGED <<buttons, overtaken, rateVars, raceVars, botVars, batchVars, clock, last_update,
                   events, hook_raised>>

\* line 1010: CancelledError leaves download_single_video, which shows
\* nothing
CancelledPropagates ==
    /\ exc = CancelledError
    /\ exc' = NoExc
    /\ UNCHANGED <<buttons, overtaken, rateVars, raceVars, botVars, batchVars, clock, last_update,
                   events, hook_raised, outcome, shown>>

EndNext ==
    \/ \E file \in {"file", "None"} : DownloadVideoReturns(file)
    \/ \E e \in Exceptions : DownloadVideoFails(e)
    \/ DownloadVideoCancelled
    \/ ShowResult
    \/ CancelledPropagates

SpecEnd == EndInit /\ [][EndNext]_vars

(* ------------------------------ claims --------------------------------- *)
\* the position of call i among the calls of its own hour
NthOfHour(h, i) == Cardinality({j \in 1..i : h[j].hour = h[i].hour})

\* C1: with a limit L >= 1 and no row at the start, the first L calls of an
\* hour return True and every further call of that hour returns False; the
\* first call of an hour returns True and leaves requests_count = 1.
C1_WindowAdmitsExactlyLimit ==
    rate_limit_per_user >= 1 =>
        \A u \in Users : \A i \in 1..Len(calls[u]) :
            LET k == NthOfHour(calls[u], i)
            IN  /\ calls[u][i].ret = (k <= rate_limit_per_user)
                /\ (k = 1 => calls[u][i].count = 1)

\* a user was denied on call L+1 of an hour and called again in a later hour
C1_Witness ==
    /\ rate_limit_per_user >= 1
    /\ \E u \in Users : \E i, j \in 1..Len(calls[u]) :
          /\ NthOfHour(calls[u], i) = rate_limit_per_user + 1
          /\ ~calls[u][i].ret
          /\ j > i
          /\ calls[u][j].hour > calls[u][i].hour
          /\ calls[u][j].ret
          /\ calls[u][j].count = 1

\* C2: after a call that returned True the stored requests_count is at most
\* the limit, for every limit the configuration allows, 0 included.
C2_CountAtMostLimit ==
    \A u \in Users : \A i \in 1..Len(calls[u]) :
        calls[u][i].ret => calls[u][i].count <= rate_limit_per_user

C4_EleventhRejected ==
    [][\A u \in Users :
          ( /\ rate_limit_per_user = DefaultRateLimit
            /\ submitted'[u] = submitted[u] + 1
            /\ submitted'[u] > DefaultRateLimit )
          => ( /\ reply' = "rate_limited"
               /\ tasks' = tasks
               /\ user_states' = user_states )]_vars

\* a user has submitted 11 links within one hour and the last was refused
C4_Witness ==
    /\ rate_limit_per_user = DefaultRateLimit
    /\ \E u \in Users :
          /\ submitted[u] = DefaultRateLimit + 1
          /\ rate_limits[u].requests_count = DefaultRateLimit
    /\ reply = "rate_limited"

\* C5: while a user has a live session, a further URL submission of that
\* user leaves the session as it is (same url, same metadata): a stored
\* session is only ever removed, never replaced by another one.
C5_ExistingSessionKept ==
    [][\A u \in Users :
          (user_states[u] # NoSession /\ user_states'[u] # NoSession)
          => ( /\ user_states'[u].url = user_states[u].url
               /\ user_states'[u].type = user_states[u].type )]_vars

Submitted == Len(Cut(entries, max_videos))

InFetch == {i \in 1..Len(items) : items[i].st \in {"queued", "running"}}

FetchSucceeded == {i \in 1..Len(items) : items[i].out \in {"ok_file", "ok_nofile"}}

Raised == {i \in 1..Len(items) : items[i].out \in {"exc", "error"}}

\* C7: a playlist whose entries list has n items after the max_videos cut
\* yields exactly n outcomes: result i is the one outcome of task i, be the
\* entry empty, without url, failing or raising.
C7_OneOutcomePerTask ==
    pl_pc \in {"returned", "reported"} =>
        /\ Len(items) = Submitted
        /\ Len(results) = Submitted
        /\ \A i \in 1..Len(results) :
              /\ items[i].st = "done"
              /\ results[i] = ResultOf(items[i].out)

\* a playlist with an empty entry, an entry without url, a raising entry and
\* a failed fetch has returned
C7_Witness ==
    /\ pl_pc = "returned"
    /\ Len(results) = MaxEntries
    /\ \E a, b, c, d \in 1..Len(items) :
          /\ items[a].out = "empty"
          /\ items[b].out = "nourl"
          /\ items[c].out = "exc"
          /\ items[d].out = "error"

\* C8: at every moment of a download_playlist run at most 3 of its items are
\* inside download_video.
C8_AtMostThreeInFetch == Cardinality(InFetch) <= BatchConcurrency

\* three items are inside download_video and a fourth video waits
C8_Witness ==
    /\ Cardinality(InFetch) = BatchConcurrency
    /\ \E i \in 1..Len(items) : items[i].st = "waiting" /\ entries[i] = "video"

\* C9: of n items of which k fetches fail the report counts n - k as
\* succeeded and k as failed: an item counts as succeeded exactly when its
\* fetch succeeded.
C9_SucceededIffFetched ==
    pl_pc = "reported" =>
        /\ completed_files = Cardinality(FetchSucceeded)
        /\ failed_files = Submitted - Cardinality(FetchSucceeded)

\* C10: an exception raised inside one item (in download_single or in the
\* fetch of download_video) is that item's failure and nothing more: the
\* batch returns only when every sibling has ended, and it returns the full
\* list, with a failure for the item and each sibling's own outcome.
C10_ExceptionIsolated ==
    (Raised # {} /\ pl_pc \in {"returned", "reported"}) =>
        /\ \A j \in 1..Submitted : items[j].st = "done"
        /\ Len(results) = Submitted
        /\ \A i \in Raised : ~results[i].success
        /\ \A j \in FetchSucceeded : results[j].success

\* a batch has returned in which one item raised in download_single, one
\* fetch raised and a sibling was downloaded
C10_Witness ==
    /\ pl_pc = "returned"
    /\ \E a, b, c \in 1..Len(items) :
          /\ items[a].out = "exc"
          /\ items[b].out = "error"
          /\ items[c].out = "ok_file"
          /\ results[c] = [success |-> TRUE, payload |-> "file"]
\* the calls a worker thread is executing: fetches of playlist items, the
\* info lookup of the playlist and the calls of the other callers, those
\* whose caller was cancelled included
CallsRunning ==
    Cardinality(Running)
    + (IF pl_pc = "info" THEN 1 ELSE 0)
    + Cardinality({o \in Others : others[o].st \in {"running", "orphan"}})

\* the calls a worker thread is executing for a caller that still awaits them
CallsAwaited ==
    Cardinality(Running)
    + (IF pl_pc = "info" THEN 1 ELSE 0)
    + Cardinality({o \in Others : others[o].st = "running"})

FreeSlots == max_concurrent_downloads - busy

\* C11: the extract_info calls executing at one time, over playlist items,
\* info lookups, single downloads and subtitle extractions of all callers,
\* never exceed max_concurrent_downloads: a call submitted while that many
\* are executing stays in the queue until one of them has ended.
C11_AtMostMaxWorkersRunning == CallsRunning <= max_concurrent_downloads

\* every worker is taken, by a playlist item and by another caller among
\* them, and a further call waits in the queue
C11_Witness ==
    /\ CallsRunning = max_concurrent_downloads
    /\ max_concurrent_downloads = MinWorkers
    /\ Running # {}
    /\ \E o \in Others : others[o].st = "running"
    /\ pool_queue # <<>>

\* C12: a worker slot is held exactly as long as its fetch executes, however
\* the fetch ends (return, exception, caller cancelled): the free slots are
\* max_concurrent_downloads less the fetches executing, and all of them once
\* every fetch has ended.
C12_SlotsReleased ==
    /\ FreeSlots = max_concurrent_downloads - CallsRunning
    /\ (CallsRunning = 0 => FreeSlots = max_concurrent_downloads)

\* a playlist has returned after a fetch that raised and one that returned,
\* no call is executing and every slot is free
C12_Witness ==
    /\ pl_pc = "returned"
    /\ \E a, b \in 1..Len(items) :
          /\ items[a].out = "error"
          /\ items[b].out = "ok_file"
    /\ CallsRunning = 0
    /\ FreeSlots = max_concurrent_downloads

\* C13: once a running download_video is cancelled its worker slot is free
\* for a pending call at once, without waiting for the fetch to end (the
\* slots taken are those of calls still awaited), and no partial output
\* file of the cancelled download is on disk.
C13_CancelFreesSlot ==
    /\ busy <= CallsAwaited
    /\ \A o \in Others : others[o].st = "orphan" => ~others[o].part

\* C14: if every fetch ends, a download_playlist that was called returns,
\* whatever the size of the playlist, the number of workers (>= 1) and the
\* calls the other callers keep handing to the executor.
C14_PlaylistReturns ==
    (pl_pc = "info_wait") ~> (pl_pc \in {"returned", "invalid"})

\* a playlist longer than the semaphore has returned on a single worker
\* thread while the call of another caller was in the executor
C14_Witness ==
    /\ pl_pc = "returned"
    /\ Len(results) = MaxEntries
    /\ max_concurrent_downloads = 1
    /\ \E o \in Others : others[o].st \in {"queued", "running"}
\* task t leaves download_single_video in this step
EndsDownload(t) ==
    /\ tasks[t].pc \in {"progress_msg", "downloading"}
    /\ tasks'[t].pc = "idle"

\* C15: the cleanup of a download whose user has no session (any more)
\* raises nothing and leaves user_states as it is, and closing a second
\* time gives what closing once gave.
C15_CloseAbsentIsNoOp ==
    [][/\ \A t \in Tasks :
             (EndsDownload(t) /\ ~SessionPresent(tasks[t].user))
             => (user_states' = user_states /\ reply' # "KeyError")
       /\ \A u \in Users :
             LET once == CloseSession(user_states, u)
                 twice == CloseSession(once.states, u)
             IN  /\ ~once.raised
                 /\ ~twice.raised
                 /\ twice.states = once.states]_vars

\* two downloads of one session have ended; the cleanup of the second found
\* no session and the download ended with its own message
C15_Witness ==
    /\ closed_absent
    /\ reply \in {"sent", "failed", "error"}
    /\ \A t \in Tasks : tasks[t].pc = "idle"
    /\ \A u \in Users : ~SessionPresent(u)

\* callback_handler has routed the data of task t and its handler is over
\* with this step
Dispatches(t) ==
    /\ tasks[t].kind = "cb"
    /\ tasks[t].pc = "dispatch"
    /\ tasks'[t].pc = "idle"

\* the session of user u has no edge for the choice `data`
NoEdge(u, data) ==
    \/ data \in {"video", "audio", "subs", "all"} /\ user_states[u].type = "playlist"
    \/ data = "playlist" /\ user_states[u].type = "video"
    \/ /\ data \in {"video", "audio", "subs", "all", "playlist", "format"}
       /\ \E d \in Tasks : /\ tasks[d].pc \in {"progress_msg", "downloading"}
                           /\ tasks[d].sid = user_states[u].sid

\* an error message in place of the next menu or of a download
Rejected(text) == text \in {"invalid_transition", "no_formats"}

\* C16: a choice for which the state of the session has no edge is answered
\* with an error and leaves the session as it is.
C16_NoEdgeRejected ==
    [][\A t \in Tasks :
          ( /\ Dispatches(t)
            /\ SessionPresent(tasks[t].user)
            /\ NoEdge(tasks[t].user, tasks[t].data) )
          => (Rejected(reply') /\ user_states' = user_states)]_vars

\* C17: the follow-up token the bot issued leads to the download: a user
\* with a playlist session who was sent the confirmation menu and presses
\* its confirm_playlist_<n> button gets start_playlist_download called.
C17_ConfirmStartsDownload ==
    [][\A t \in Tasks :
          ( /\ tasks[t].kind = "cb"
            /\ tasks[t].pc = "dispatch"
            /\ tasks[t].data = "confirm_playlist"
            /\ reply = "confirm_menu"
            /\ user_states[tasks[t].user].type = "playlist"
            /\ tasks'[t] # tasks[t] )
          => tasks'[t].pc = "playlist_download"]_vars

C19_SessionRemovedOnEveryExit ==
    [][\A t \in Tasks :
          EndsDownload(t) => user_states'[tasks[t].user] = NoSession]_vars

\* C20: a session untouched for longer than the TTL is absent for the next
\* lookup: the choice is answered as expired and the entry is removed.
C20_StaleSessionExpired ==
    [][\A t \in Tasks :
          ( /\ tasks[t].kind = "cb"
            /\ tasks[t].pc = "dispatch"
            /\ tasks'[t] # tasks[t]
            /\ Route(tasks[t].data) \in {"handle_download_choice",
                                         "handle_playlist_download",
                                         "handle_format_selection"}
            /\ stale[tasks[t].user] )
          => ( /\ reply' = "expired"
               /\ tasks'[t].pc = "idle"
               /\ user_states'[tasks[t].user] = NoSession )]_vars
(* ---- C21, C22: progress updates ---- *)
\* the events the callback handed to progress_msg.edit_text
Forwarded == {i \in 1..Len(events) : events[i].fwd}

\* the events of the download that arrived within a second of the first
InBurst == {i \in 1..Len(events) : events[i].at - events[1].at <= 1}

\* C21: in a burst of events within one second, the first event and the
\* terminal event of the download are forwarded to the user whatever the
\* gate says.
C21_FirstAndTerminalForwarded ==
    \A i \in InBurst :
        (i = 1 \/ events[i].status \in Terminal) => i \in Forwarded

\* C22: any two forwarded progress updates of one download are at least
\* two seconds apart.
C22_ForwardedTwoSecondsApart ==
    \A i, j \in Forwarded :
        i < j => events[j].at - events[i].at >= GateSeconds

\* two updates were forwarded just two seconds apart and an event between
\* them was dropped
C22_Witness ==
    \E i, j \in Forwarded, k \in 1..Len(events) :
        /\ i < k /\ k < j
        /\ k \notin Forwarded
        /\ events[k].status = "downloading"
        /\ events[j].at - events[i].at = GateSeconds

(* ---- C23: failure categories ---- *)
\* C23: every failed outcome of a download carries one of the failure
\* categories, and the user is shown that category, not the raw message.
C23_FailureHasCategory ==
    /\ (outcome # NoOutcome /\ ~outcome.success)
          => outcome.payload \in Categories
    /\ \A i \in 1..Len(shown) :
          shown[i].head = "failed" => shown[i].body \in Categories

(* ---- C24..C26: the hour windows of the rate limiter ---- *)
\* the call of user u that the step adds to the log, if it adds one
Called(u) == Len(calls'[u]) = Len(calls[u]) + 1

LastCall(u) == calls[u][Len(calls[u])]

\* C24: a check_rate_limit call that returns False leaves requests_count
\* and hour_start of the user as they were.
C24_DeniedCallChangesNothing ==
    [][\A u \in Users :
          (Called(u) /\ ~LastCall(u)'.ret) =>
              /\ rate_limits'[u].requests_count = rate_limits[u].requests_count
              /\ rate_limits'[u].hour_start = rate_limits[u].hour_start
              /\ rate_limits' = rate_limits]_vars

\* a user at the limit in the current hour has just been denied
C24_Witness ==
    \E u \in Users :
        /\ rate_limit_per_user >= 1
        /\ Len(calls[u]) > 0
        /\ ~LastCall(u).ret
        /\ LastCall(u).hour = current_hour
        /\ rate_limits[u] = Row(current_hour, rate_limit_per_user)

\* the calls of user u in hour h that returned True
Admissions(u, h) ==
    Cardinality({i \in 1..Len(calls[u]) : calls[u][i].hour = h /\ calls[u][i].ret})

\* C25: over two adjacent hour windows a user is admitted at most twice the
\* limit.
C25_AtMostTwiceLimitAdjacent ==
    \A u \in Users : \A h \in 0..(MaxHour - 1) :
        Admissions(u, h) + Admissions(u, h + 1) <= 2 * rate_limit_per_user

\* the same bound for the limits of at least 1
TwiceLimitFromOne ==
    rate_limit_per_user >= 1 => C25_AtMostTwiceLimitAdjacent

\* a user was admitted limit times in each of two hours next to each other
TwiceLimitAttained ==
    \E u \in Users : \E h \in 0..(MaxHour - 1) :
        /\ rate_limit_per_user >= 1
        /\ Admissions(u, h) = rate_limit_per_user
        /\ Admissions(u, h + 1) = rate_limit_per_user

\* C26: the stored hour_start of a user never decreases.
C26_HourStartNeverDecreases ==
    [][\A u \in Users :
          rate_limits[u].present =>
              /\ rate_limits'[u].present
              /\ rate_limits'[u].hour_start >= rate_limits[u].hour_start]_vars

\* the window of a user has been reset in a later hour than it was opened
C26_Witness ==
    \E u \in Users : \E i \in 1..Len(calls[u]) :
        /\ calls[u][i].hour < current_hour
        /\ LastCall(u).hour = current_hour
        /\ rate_limits[u].hour_start = current_hour

(* ---- C27, C28: admission and the flow of a submission ---- *)
\* the row one check_rate_limit call leaves
RowAfterOneCall(row) ==
    Write(Decision(row, current_hour, rate_limit_per_user), row, current_hour)

\* C27: a URL submission makes exactly one check_rate_limit call, and no
\* other step of a flow (choice, format selection, download) checks
\* admission again or changes requests_count.
C27_OneAdmissionCheckPerSubmission ==
    [][\A u \in Users :
          IF submitted'[u] = submitted[u] + 1
          THEN rate_limits'[u] = RowAfterOneCall(rate_limits[u])
          ELSE rate_limits'[u] = rate_limits[u]]_vars

\* a user who has submitted one URL has a download under way and is
\* charged one request
C27_Witness ==
    \E t \in Tasks :
        /\ tasks[t].pc = "downloading"
        /\ submitted[tasks[t].user] = 1
        /\ rate_limits[tasks[t].user].requests_count = 1
        /\ updates >= 3

\* the step takes handler t past the admission check of handle_url
PassesAdmission(t) == tasks[t].pc = "idle" /\ tasks'[t].kind = "url"

\* the step stores a session for user u
StoresSession(u) ==
    user_states'[u] # NoSession /\ user_states'[u] # user_states[u]

\* the step has handler t call download_video
StartsDownload(t) ==
    tasks[t].pc # "downloading" /\ tasks'[t].pc = "downloading"

\* the step removes the session of user u
ClosesSession(u) == user_states[u] # NoSession /\ user_states'[u] = NoSession

\* C28: a download is started only for a user who was admitted and has a
\* session holding the URL, in the order admit, store the session, start
\* the download, close the session.
C28_AdmitSessionDispatchClose ==
    [][/\ \A t \in Tasks :
            PassesAdmission(t) =>
                Returns(Decision(rate_limits[tasks'[t].user], current_hour,
                                 rate_limit_per_user))
       /\ \A u \in Users :
            StoresSession(u) =>
                \E t \in Tasks : /\ tasks[t].kind = "url"
                                 /\ tasks[t].user = u
                                 /\ tasks[t].url = user_states'[u].url
       /\ \A t \in Tasks :
            StartsDownload(t) =>
                /\ user_states[tasks[t].user] # NoSession
                /\ user_states[tasks[t].user].url = tasks[t].url
                /\ rate_limits[tasks[t].user].present
       /\ \A u \in Users :
            ClosesSession(u) =>
                \E t \in Tasks :
                    /\ tasks[t].user = u
                    /\ \/ tasks[t].pc = "downloading"
                       \/ Route(tasks[t].data) = "cancel_operation"]_vars

\* an admitted user's download has been sent and the session closed
C28_Witness ==
    \E u \in Users :
        /\ submitted[u] >= 1
        /\ rate_limits[u].present
        /\ reply = "sent"
        /\ user_states[u] = NoSession
        /\ \A v \in Users \ {u} : submitted[v] = 0

(* ---- C29, C30: the playlist batch ---- *)
\* C29: the playlist semaphore is no larger than the executor of the
\* downloader, whatever MAX_CONCURRENT the bot runs with.
C29_BatchSemaphoreWithinLimiter ==
    pl_pc = "gather" => BatchConcurrency <= max_concurrent_downloads

\* C30: when download_playlist is cancelled with items pending or running,
\* as many outcomes are recorded as tasks were submitted, the result of an
\* item that completes anyway among them.
C30_CancelledBatchRecordsAll ==
    pl_pc = "cancelled" =>
        /\ Len(results) = Len(items)
        /\ \A i \in 1..Len(items) :
              items[i].st = "dropped" =>
                  /\ i <= Len(results)
                  /\ results[i] = ResultOf(items[i].out)

(* ---- C31: no automatic retry ---- *)
\* the fetch of item i has been handed to a worker thread
Fetched(its, i) == its[i].st \in {"running", "done"}

\* C31: the fetch of a download is invoked at most once, whatever it ends
\* with: an item whose fetch has started never waits for a fetch again, and
\* an item that is over stays as it is.
C31_FetchInvokedAtMostOnce ==
    [][\A i \in 1..Len(items) :
          Fetched(items, i) =>
              /\ i <= Len(items')
              /\ Fetched(items', i)
              /\ ItemJob(i) \notin {pool_queue'[k] : k \in 1..Len(pool_queue')}
              /\ (items[i].st = "done" => items'[i] = items[i])]_vars

\* the playlist has returned with an item whose fetch raised
C31_Witness ==
    /\ pl_pc = "returned"
    /\ \E i \in 1..Len(items) :
          /\ items[i].out = "error"
          /\ ~results[i].success

(* ---- C32: a gated progress event ---- *)
\* the step is progress_callback called with an event inside the gate
GatedEvent ==
    /\ Len(events') = Len(events) + 1
    /\ clock - last_update < GateSeconds

\* C32: a progress event the gate rejects is discarded: last_update stays,
\* no edit is scheduled for it, the edits scheduled before are the same,
\* and the callback returns normally.
C32_GatedEventDiscarded ==
    [][GatedEvent =>
          /\ last_update' = last_update
          /\ ~events'[Len(events')].fwd
          /\ SubSeq(events', 1, Len(events)) = events
          /\ ~hook_raised']_vars

\* a 'downloading' event came less than two seconds after a forwarded one
\* and was dropped
C32_Witness ==
    \E i, k \in 1..Len(events) :
        /\ i < k
        /\ events[i].fwd
        /\ events[k].status = "downloading"
        /\ events[k].at - events[i].at < GateSeconds
        /\ ~events[k].fwd
        /\ last_update = events[i].at

(* ---- C33: users are kept apart ---- *)
\* the users on whose behalf the step runs: the user of a handler that goes
\* on or ends, and the user of an update that is taken up
Actors ==
    {tasks[t].user : t \in {x \in Tasks : tasks[x].pc # "idle"
                                          /\ tasks'[x] # tasks[x]}}
    \cup {tasks'[t].user : t \in {x \in Tasks : tasks[x].pc = "idle"
                                             /\ tasks'[x].pc # "idle"}}
    \cup {u \in Users : submitted'[u] # submitted[u]}

\* C33: an operation on behalf of a user leaves the rate window and the
\* session of every other user as they were.
C33_OtherUsersUntouched ==
    [][\A v \in Users :
          (rate_limits'[v] # rate_limits[v] \/ user_states'[v] # user_states[v])
              => Actors = {v}]_vars

\* both users were admitted, the download of one has ended and closed that
\* user's session, and the other user's session is still there
C33_Witness ==
    \E u, v \in Users :
        /\ u # v
        /\ rate_limits[u].present /\ rate_limits[v].present
        /\ user_states[u] = NoSession
        /\ user_states[v] # NoSession
        /\ reply \in {"sent", "failed", "error"}
        /\ \A t \in Tasks : tasks[t].pc = "idle"

(* ---- C34, C35: order and cut of a playlist ---- *)
\* the results download_single can give for a playlist entry
ResultsOfEntry(e) ==
    CASE e = "video" -> {ResultOf(o) : o \in FetchOutcomes}
      [] e = "empty" -> {ResultOf("empty")}
      [] e = "nourl" -> {ResultOf("nourl")}
      [] OTHER       -> {ResultOf("exc")}

\* C34: download_playlist returns its outcomes in playlist order: result i
\* is the outcome of entry i, whatever order the downloads ended in.
C34_ResultsInPlaylistOrder ==
    pl_pc = "returned" =>
        \A i \in 1..Len(results) :
            /\ results[i] \in ResultsOfEntry(entries[i])
            /\ results[i].success = (items[i].out \in {"ok_file", "ok_nofile"})
            /\ results[i].payload = ResultOf(items[i].out).payload

\* a playlist has returned in which a later item ended before an earlier
\* one, and the two have different results
C34_Witness ==
    /\ pl_pc = "returned"
    /\ overtaken
    /\ \E i, j \in 1..Len(results) : i < j /\ results[i] # results[j]

Min(a, b) == IF a < b THEN a ELSE b

\* the entry an item that has ended must have come from
EntryOf(out) ==
    CASE out \in FetchOutcomes -> "video"
      [] out = "empty"         -> "empty"
      [] out = "nourl"         -> "nourl"
      [] OTHER                 -> "bad"

\* C35: download_playlist creates min(len(entries), max_videos) tasks, for
\* the entries at the front of the playlist in their order, and fetches no
\* entry beyond the first max_videos.
C35_TasksAreTheFirstMaxVideos ==
    pl_pc \in {"gather", "returned", "reported"} =>
        /\ Len(items) = Min(Len(entries), max_videos)
        /\ \A i \in 1..Len(items) :
              items[i].st = "done" => entries[i] = EntryOf(items[i].out)
        /\ \A k \in 1..Len(pool_queue) :
              pool_queue[k].kind = "item" =>
                  /\ pool_queue[k].n <= max_videos
                  /\ entries[pool_queue[k].n] = "video"

\* a playlist longer than max_videos has returned with max_videos results
C35_Witness ==
    /\ pl_pc = "returned"
    /\ Len(entries) > max_videos
    /\ Len(results) = max_videos
    /\ entries[Len(entries)] = "video"
    /\ \E i \in 1..Len(items) : items[i].out = "ok_file"

(* ------------------ C36: a submission without a menu -------------------- *)
\* the step belongs to handle_url: the submission is counted (line 494
\* onwards) or the handler of task t goes on
HandlesUrl(t) == submitted' # submitted \/ tasks[t].kind = "url"

\* the texts of the two menus (591-595, 640-644)
MenuTexts == {"video_menu", "playlist_menu"}

\* the step ends handle_url with a menu
MenuSent(t) ==
    /\ tasks[t].kind = "url"
    /\ tasks'[t] = IdleTask
    /\ reply' \in MenuTexts

\* the texts handle_url ends with when it sends no menu (499-505, 509-515,
\* 529-534, 601-605)
RefusalTexts == {"rate_limited", "unsupported", "no_info", "playlist_disabled"}

ActsOnSession(t) ==
    /\ tasks[t].kind = "cb"
    /\ tasks[t].pc = "dispatch"
    /\ tasks[t].url # "none"
    /\ tasks'[t].pc = "idle"
    /\ reply' \in {"quality_menu", "no_formats", "confirm_menu"}

\* C37: handle_download_choice and handle_playlist_download act for a
\* button only when the url the button was made for is the url of the
\* session the user has now.
C37_TokenMatchesSession ==
    [][\A t \in Tasks :
          ActsOnSession(t) =>
              user_states[tasks[t].user].url = tasks[t].url]_vars

(* ---------------- C38: the session a download ends with ----------------- *)
\* download_single_video of task t returns, and the user has a session
\* that is not the one the download read its url from (919-920): it was
\* stored by a later submission
EndsBesideLaterSession(t) ==
    /\ tasks[t].kind = "cb"
    /\ tasks[t].pc = "downloading"
    /\ tasks'[t].pc = "idle"
    /\ user_states[tasks[t].user] # NoSession
    /\ user_states[tasks[t].user].sid # tasks[t].sid

====
